---- MODULE Spec2Model ----
(***************************************************************************)
(* TradeSage: SMA-crossover backtester.  The model follows one Backtester  *)
(* object from the construction of its strategy to the report:             *)
(*   SMACrossover.__init__  ->  Backtester.__init__  ->  Backtester.run    *)
(*   ->  main's reporter / example's reporter / calculate_all_metrics.     *)
(* Floating-point values are modelled as exact rationals extended with     *)
(* NaN, +inf, -inf and signed zero (IEEE-754 special-value rules, no       *)
(* rounding).                                                              *)
(***************************************************************************)
EXTENDS Integers, Sequences, FiniteSets, TLC

\* ------------------------------------------------------------------------
\* Bounds of the model
\* ------------------------------------------------------------------------
MaxLen == 4
MaxPrice == 2
MaxWindow == 3
MaxCapital == 2

\* Close prices of the loaded data (0 is the non-positive price).
PriceDom == 0..MaxPrice
\* Window arguments, including a zero and a negative one.
WindowDom == (0 - 1)..MaxWindow
\* Initial capital arguments, including zero and a negative one.
CapitalDom == (0 - 1)..MaxCapital

RECURSIVE SeqsUpTo(_)
SeqsUpTo(k) == IF k = 0 THEN {} ELSE [1..k -> PriceDom] \cup SeqsUpTo(k - 1)
\* Every non-empty price series of at most MaxLen periods.
PriceSeries == SeqsUpTo(MaxLen)

\* ------------------------------------------------------------------------
\* float64 values: [n, d] is n/d; d = 0 encodes NaN (n = 0) and the
\* infinities (n = 1, -1); n = 0 with d = 1 / -1 is +0.0 / -0.0.
\* ------------------------------------------------------------------------
Abs(i) == IF i < 0 THEN 0 - i ELSE i

RECURSIVE GCD(_, _)
GCD(a, b) == IF b = 0 THEN a ELSE GCD(b, a % b)

NaN == [n |-> 0, d |-> 0]
PosInf == [n |-> 1, d |-> 0]
NegInf == [n |-> 0 - 1, d |-> 0]

Mk(neg, an, ad) ==
    IF ad = 0
    THEN (IF an = 0 THEN NaN ELSE (IF neg THEN NegInf ELSE PosInf))
    ELSE IF an = 0
         THEN [n |-> 0, d |-> IF neg THEN 0 - 1 ELSE 1]
         ELSE LET g == GCD(an, ad)
              IN [n |-> (IF neg THEN 0 - (an \div g) ELSE an \div g),
                  d |-> ad \div g]

F(i) == Mk(i < 0, Abs(i), 1)

IsNaN(x) == x.n = 0 /\ x.d = 0
IsInf(x) == x.n # 0 /\ x.d = 0
IsZero(x) == x.n = 0 /\ x.d # 0
SignBit(x) == x.n < 0 \/ (x.n = 0 /\ x.d < 0)

FNeg(x) ==
    IF IsNaN(x) THEN NaN
    ELSE IF IsZero(x) THEN [n |-> 0, d |-> 0 - x.d]
    ELSE [n |-> 0 - x.n, d |-> x.d]

FMul(x, y) ==
    IF IsNaN(x) \/ IsNaN(y) THEN NaN
    ELSE Mk(SignBit(x) # SignBit(y), Abs(x.n) * Abs(y.n), Abs(x.d) * Abs(y.d))

FDiv(x, y) ==
    IF IsNaN(x) \/ IsNaN(y) THEN NaN
    ELSE Mk(SignBit(x) # SignBit(y), Abs(x.n) * Abs(y.d), Abs(x.d) * Abs(y.n))

FAdd(x, y) ==
    IF IsNaN(x) \/ IsNaN(y) THEN NaN
    ELSE IF IsInf(x) /\ IsInf(y) THEN (IF x.n = y.n THEN x ELSE NaN)
    ELSE IF IsInf(x) THEN x
    ELSE IF IsInf(y) THEN y
    ELSE IF IsZero(x) /\ IsZero(y)
         THEN [n |-> 0, d |-> IF SignBit(x) /\ SignBit(y) THEN 0 - 1 ELSE 1]
    ELSE LET s == x.n * Abs(y.d) + y.n * Abs(x.d)
         IN Mk(s < 0, Abs(s), Abs(x.d) * Abs(y.d))

FSub(x, y) == FAdd(x, FNeg(y))

\* Comparisons are numeric: any comparison with NaN is false, -0.0 = +0.0.
FLt(x, y) ==
    IF IsNaN(x) \/ IsNaN(y) THEN FALSE
    ELSE IF IsInf(x) \/ IsInf(y)
         THEN (x = NegInf /\ y # NegInf) \/ (y = PosInf /\ x # PosInf)
    ELSE x.n * Abs(y.d) < y.n * Abs(x.d)

FGt(x, y) == FLt(y, x)
FEq(x, y) == ~IsNaN(x) /\ ~IsNaN(y) /\ ~FLt(x, y) /\ ~FLt(y, x)
FNe(x, y) == ~FEq(x, y)
FAbs(x) == IF SignBit(x) THEN FNeg(x) ELSE x

\* ------------------------------------------------------------------------
\* pandas Series operations on sequences of float64
\* ------------------------------------------------------------------------
Shift(s) == [i \in 1..Len(s) |-> IF i = 1 THEN NaN ELSE s[i - 1]]

FillNa(s, v) == [i \in 1..Len(s) |-> IF IsNaN(s[i]) THEN v ELSE s[i]]

Diff(s) == [i \in 1..Len(s) |-> FSub(s[i], Shift(s)[i])]

PctChange(s) == [i \in 1..Len(s) |-> FSub(FDiv(s[i], Shift(s)[i]), F(1))]

\* Sum of s[lo..hi], left to right.
RECURSIVE RangeSum(_, _, _)
RangeSum(s, lo, hi) ==
    IF hi < lo THEN F(0) ELSE FAdd(RangeSum(s, lo, hi - 1), s[hi])

\* rolling(window = w, min_periods = 1).mean()
RollingMean(s, w) ==
    [i \in 1..Len(s) |->
        LET lo == IF i - w + 1 < 1 THEN 1 ELSE i - w + 1
        IN FDiv(RangeSum(s, lo, i), F(i - lo + 1))]

\* cumprod / cummax with skipna: NaN entries are masked (by 1.0 / -inf),
\* the plain accumulation runs, and NaN is put back at the masked places.
RECURSIVE AccProd(_, _)
AccProd(s, i) ==
    IF i = 0 THEN F(1)
    ELSE FMul(AccProd(s, i - 1), IF IsNaN(s[i]) THEN F(1) ELSE s[i])

CumProd(s) == [i \in 1..Len(s) |-> IF IsNaN(s[i]) THEN NaN ELSE AccProd(s, i)]

\* np.maximum: NaN propagates
NpMaximum(a, b) == IF IsNaN(a) \/ IsNaN(b) THEN NaN ELSE IF FLt(a, b) THEN b ELSE a

RECURSIVE AccMax(_, _)
AccMax(s, i) ==
    IF i = 0 THEN NegInf
    ELSE NpMaximum(AccMax(s, i - 1), IF IsNaN(s[i]) THEN NegInf ELSE s[i])

CumMax(s) == [i \in 1..Len(s) |-> IF IsNaN(s[i]) THEN NaN ELSE AccMax(s, i)]

\* Number of non-NaN entries among s[1..i].
RECURSIVE Count(_, _)
Count(s, i) ==
    IF i = 0 THEN 0 ELSE Count(s, i - 1) + (IF IsNaN(s[i]) THEN 0 ELSE 1)

\* Series.sum(): NaN entries count as 0.
NanSum(s) == RangeSum(FillNa(s, F(0)), 1, Len(s))

\* Series.mean(): NaN entries are skipped; NaN when nothing is left.
NanMean(s) ==
    IF Count(s, Len(s)) = 0 THEN NaN ELSE FDiv(NanSum(s), F(Count(s, Len(s))))

\* Series.var(ddof = 1), the square of Series.std()
NanVar(s) ==
    LET c == Count(s, Len(s))
        avg == FDiv(NanSum(s), F(c))
        sqr == [i \in 1..Len(s) |->
                   IF IsNaN(s[i]) THEN F(0)
                   ELSE FMul(FSub(avg, s[i]), FSub(avg, s[i]))]
    IN IF c - 1 <= 0 THEN NaN ELSE FDiv(RangeSum(sqr, 1, Len(s)), F(c - 1))

\* Series.min(): NaN entries are skipped; NaN when nothing is left.
RECURSIVE AccMin(_, _)
AccMin(s, i) ==
    IF i = 0 THEN PosInf
    ELSE LET m == AccMin(s, i - 1)
             v == IF IsNaN(s[i]) THEN PosInf ELSE s[i]
         IN IF FLt(v, m) THEN v ELSE m

NanMin(s) == IF Count(s, Len(s)) = 0 THEN NaN ELSE AccMin(s, Len(s))

SeqAbs(s) == [i \in 1..Len(s) |-> FAbs(s[i])]
SeqAddScalar(v, s) == [i \in 1..Len(s) |-> FAdd(v, s[i])]
SeqMulScalar(s, v) == [i \in 1..Len(s) |-> FMul(s[i], v)]
SeqMul(a, b) == [i \in 1..Len(a) |-> FMul(a[i], b[i])]
SeqSub(a, b) == [i \in 1..Len(a) |-> FSub(a[i], b[i])]
SeqDiv(a, b) == [i \in 1..Len(a) |-> FDiv(a[i], b[i])]
ToFloat(s) == [i \in 1..Len(s) |-> F(s[i])]

\* int(x) of an integral float
ToInt(x) == x.n \div Abs(x.d)

\* ------------------------------------------------------------------------
\* strategy.py
\* ------------------------------------------------------------------------
\* SMACrossover.__init__ raises ValueError exactly when short >= long.
InitRaises(short_window, long_window) == short_window >= long_window

\* data['Close'].rolling(window = w, min_periods = 1) raises ValueError for a
\* window below min_periods (w = 0) and for a negative window.
RollingRaises(w) == w < 1

\* signals['signal'] = 0, then 1 where short_ma > long_ma (a tie stays 0).
SignalColumn(short_ma, long_ma) ==
    [i \in 1..Len(short_ma) |-> IF FGt(short_ma[i], long_ma[i]) THEN 1 ELSE 0]

\* Mutant of PositionsColumn: the fillna(0) is forgotten.
PositionsNoFill(signal) == Diff(ToFloat(signal))

\* signals['positions'] = signals['signal'].diff().fillna(0)
PositionsColumn(signal) == FillNa(Diff(ToFloat(signal)), F(0))

\* SMACrossover.generate_signals on a frame whose Close column is close.
GenerateSignals(close, short, long) ==
    LET price == ToFloat(close)
        short_ma == RollingMean(price, short)
        long_ma == RollingMean(price, long)
        signal == SignalColumn(short_ma, long_ma)
    IN [price |-> price, short_ma |-> short_ma, long_ma |-> long_ma,
        signal |-> signal, positions |-> PositionsColumn(signal)]

\* ------------------------------------------------------------------------
\* metrics.py
\* ------------------------------------------------------------------------
PERIODS_PER_YEAR == 252

\* The signal column as compute_returns lags it: signal.shift(1).
LaggedSignal(signal) == Shift(ToFloat(signal))

compute_returns(signals) ==
    LET returns == FillNa(PctChange(signals.price), F(0))
    IN SeqMul(returns, LaggedSignal(signals.signal))

\* num / sqrt(sq): the quotients whose denominator is a standard deviation
\* are kept symbolic; NaN in either part makes the quotient NaN.
OverSqrt(num, sq) ==
    IF IsNaN(num) \/ IsNaN(sq) THEN [num |-> NaN, sqden |-> F(1)]
    ELSE [num |-> num, sqden |-> sq]

sharpe_ratio(returns) ==
    LET excess_returns == SeqSub(returns, ToFloat([i \in 1..Len(returns) |-> 0]))
        mean == FMul(NanMean(excess_returns), F(PERIODS_PER_YEAR))
        var == FMul(NanVar(excess_returns), F(PERIODS_PER_YEAR))
    IN IF FNe(var, F(0)) THEN OverSqrt(mean, var) ELSE OverSqrt(NaN, NaN)

sortino_ratio(returns) ==
    LET excess_returns == SeqSub(returns, ToFloat([i \in 1..Len(returns) |-> 0]))
        downside_returns == SelectSeq(excess_returns, LAMBDA x : FLt(x, F(0)))
        downside_var == FMul(NanVar(downside_returns), F(PERIODS_PER_YEAR))
        mean == FMul(NanMean(excess_returns), F(PERIODS_PER_YEAR))
    IN IF FNe(downside_var, F(0)) THEN OverSqrt(mean, downside_var)
       ELSE OverSqrt(NaN, NaN)

max_drawdown(equity) ==
    LET cum_max == CumMax(equity)
        drawdown == SeqDiv(SeqSub(equity, cum_max), cum_max)
    IN NanMin(drawdown)

calmar_ratio(returns, equity) ==
    LET annualized_return == FMul(NanMean(returns), F(PERIODS_PER_YEAR))
        max_dd == FAbs(max_drawdown(equity))
    IN IF FNe(max_dd, F(0)) THEN FDiv(annualized_return, max_dd) ELSE NaN

\* Mutant of TradeScan: the entry branch forgets in_position = True.
RECURSIVE TradeScanNeverIn(_, _)
TradeScanNeverIn(signals, i) ==
    IF i = 0
    THEN [in_position |-> FALSE, entry_price |-> F(0), trade_returns |-> <<>>]
    ELSE LET st == TradeScanNeverIn(signals, i - 1)
             pos == signals.positions[i]
             price == signals.price[i]
         IN IF FEq(pos, F(1)) /\ ~st.in_position
            THEN [st EXCEPT !.entry_price = price]
            ELSE IF FEq(pos, F(0 - 1)) /\ st.in_position
                 THEN [st EXCEPT
                         !.trade_returns =
                             Append(@, FDiv(FSub(price, st.entry_price),
                                            st.entry_price)),
                         !.in_position = FALSE]
                 ELSE st

\* The row loop shared by win_rate, average_trade_return and profit_factor:
\* the loop state after the first i rows of the signals table.
RECURSIVE TradeScan(_, _)
TradeScan(signals, i) ==
    IF i = 0
    THEN [in_position |-> FALSE, entry_price |-> F(0), trade_returns |-> <<>>]
    ELSE LET st == TradeScan(signals, i - 1)
             pos == signals.positions[i]
             price == signals.price[i]
         IN IF FEq(pos, F(1)) /\ ~st.in_position
            THEN [st EXCEPT !.entry_price = price, !.in_position = TRUE]
            ELSE IF FEq(pos, F(0 - 1)) /\ st.in_position
                 THEN [st EXCEPT
                         !.trade_returns =
                             Append(@, FDiv(FSub(price, st.entry_price),
                                            st.entry_price)),
                         !.in_position = FALSE]
                 ELSE st

TradeReturns(signals) == TradeScan(signals, Len(signals.price)).trade_returns

\* len(positions[positions != 0])
NonZeroPositions(signals) ==
    Len(SelectSeq(signals.positions, LAMBDA x : FNe(x, F(0))))

\* Python's sum(...) over a list, starting from 0
PySum(s) == RangeSum(s, 1, Len(s))

win_rate(signals) ==
    LET trade_returns == TradeReturns(signals)
        winning_trades == Len(SelectSeq(trade_returns, LAMBDA r : FGt(r, F(0))))
    IN IF NonZeroPositions(signals) = 0 THEN F(0)
       ELSE IF Len(trade_returns) = 0 THEN F(0)
       ELSE FDiv(F(winning_trades), F(Len(trade_returns)))

\* np.mean(trade_returns): a plain mean, NaN propagates
average_trade_return(signals) ==
    LET trade_returns == TradeReturns(signals)
    IN IF NonZeroPositions(signals) = 0 THEN F(0)
       ELSE IF Len(trade_returns) = 0 THEN F(0)
       ELSE FDiv(RangeSum(trade_returns, 1, Len(trade_returns)),
                 F(Len(trade_returns)))

profit_factor(signals) ==
    LET trade_returns == TradeReturns(signals)
        gross_profit == PySum(SelectSeq(trade_returns, LAMBDA r : FGt(r, F(0))))
        gross_loss == FAbs(PySum(SelectSeq(trade_returns, LAMBDA r : FLt(r, F(0)))))
    IN IF NonZeroPositions(signals) = 0 THEN F(0)
       ELSE IF Len(trade_returns) = 0 THEN F(0)
       ELSE IF FNe(gross_loss, F(0)) THEN FDiv(gross_profit, gross_loss)
       ELSE PosInf

\* int(signals['positions'].abs().sum())
TotalTrades(signals) == ToInt(NanSum(SeqAbs(signals.positions)))

\* Python's max(...) / min(...) over a non-empty list without NaN
RECURSIVE PyMax(_, _)
PyMax(s, i) ==
    IF i = 1 THEN s[1]
    ELSE LET m == PyMax(s, i - 1) IN IF FGt(s[i], m) THEN s[i] ELSE m

RECURSIVE PyMin(_, _)
PyMin(s, i) ==
    IF i = 1 THEN s[1]
    ELSE LET m == PyMin(s, i - 1) IN IF FLt(s[i], m) THEN s[i] ELSE m

BestTrade(returns) ==
    LET gains == SelectSeq(returns, LAMBDA r : FGt(r, F(0)))
    IN IF Len(gains) > 0 THEN PyMax(gains, Len(gains)) ELSE F(0)

WorstTrade(returns) ==
    LET losses == SelectSeq(returns, LAMBDA r : FLt(r, F(0)))
    IN IF Len(losses) > 0 THEN PyMin(losses, Len(losses)) ELSE F(0)

calculate_all_metrics(returns, equity, signals) ==
    LET initial_value == IF Len(equity) > 0 THEN equity[1] ELSE F(1)
        final_value == IF Len(equity) > 0 THEN equity[Len(equity)] ELSE F(1)
        cumulative_return ==
            IF FNe(initial_value, F(0))
            THEN FSub(FDiv(final_value, initial_value), F(1))
            ELSE F(0)
    IN  ("Cumulative Return" :> cumulative_return)
     @@ ("Sharpe Ratio" :> sharpe_ratio(returns))
     @@ ("Sortino Ratio" :> sortino_ratio(returns))
     @@ ("Max Drawdown" :> max_drawdown(equity))
     @@ ("Calmar Ratio" :> calmar_ratio(returns, equity))
     @@ ("Total Trades" :> TotalTrades(signals))
     @@ ("Win Rate" :> win_rate(signals))
     @@ ("Average Trade Return" :> average_trade_return(signals))
     @@ ("Profit Factor" :> profit_factor(signals))
     @@ ("Annualized Return" :> FMul(NanMean(returns), F(PERIODS_PER_YEAR)))
     @@ ("Annualized Volatility" :>
            [sqrt_of |-> FMul(NanVar(returns), F(PERIODS_PER_YEAR))])
     @@ ("Best Trade" :> BestTrade(returns))
     @@ ("Worst Trade" :> WorstTrade(returns))

\* ------------------------------------------------------------------------
\* State: one caller script, its strategy and its Backtester.  An attribute
\* that is not set yet is <<>>; once set it is <<value>>.
\* ------------------------------------------------------------------------
VARIABLES
    pc,               \* where the caller is
    error,            \* the exception that ended the script, or "none"
    args,             \* <<short_window, long_window>> given to SMACrossover
    strategy,         \* the SMACrossover: [short, long]
    data,             \* Backtester.data['Close']
    initial_capital,  \* Backtester.initial_capital
    signals,          \* Backtester.signals
    returns,          \* Backtester.returns
    equity,           \* Backtester.equity
    stats,            \* Backtester.stats, the report run returns
    metrics           \* the dictionary calculate_all_metrics returns

vars == <<pc, error, args, strategy, data, initial_capital, signals, returns,
          equity, stats, metrics>>

Init ==
    /\ pc = "start"
    /\ error = "none"
    /\ args = <<>>
    /\ strategy = <<>>
    /\ data = <<>>
    /\ initial_capital = <<>>
    /\ signals = <<>>
    /\ returns = <<>>
    /\ equity = <<>>
    /\ stats = <<>>
    /\ metrics = <<>>

\* SMACrossover(short_window, long_window)
NewStrategy ==
    /\ pc = "start"
    /\ \E short_window \in WindowDom, long_window \in WindowDom :
          /\ args' = <<short_window, long_window>>
          /\ IF InitRaises(short_window, long_window)
             THEN /\ error' = "ValueError"
                  /\ pc' = "strategy_failed"
                  /\ UNCHANGED strategy
             ELSE /\ strategy' = <<[short |-> short_window, long |-> long_window]>>
                  /\ pc' = "strategy"
                  /\ UNCHANGED error
    /\ UNCHANGED <<data, initial_capital, signals, returns, equity, stats, metrics>>

\* Backtester(data, strategy, initial_capital)
NewBacktester ==
    /\ pc = "strategy"
    /\ \E close \in PriceSeries, capital \in CapitalDom :
          /\ data' = close
          /\ initial_capital' = <<capital>>
    /\ pc' = "backtester"
    /\ UNCHANGED <<error, args, strategy, signals, returns, equity, stats, metrics>>

\* The report Backtester.run builds from the signals, returns and equity.
RunStats(sig, strat_ret, eq, capital) ==
       ("Cumulative Return" :> FSub(FDiv(eq[Len(eq)], F(capital)), F(1)))
    @@ ("Sharpe Ratio" :> sharpe_ratio(strat_ret))
    @@ ("Max Drawdown" :> max_drawdown(eq))
    @@ ("Total Trades" :> TotalTrades(sig))

\* equity = (1 + strat_ret).cumprod() * self.initial_capital
EquityCurve(strat_ret, capital) ==
    SeqMulScalar(CumProd(SeqAddScalar(F(1), strat_ret)), F(capital))

\* Backtester.run()
Run ==
    /\ pc = "backtester"
    /\ \E st \in {strategy[1]} :
         IF RollingRaises(st.short) \/ RollingRaises(st.long)
         THEN /\ error' = "ValueError"
              /\ pc' = "run_failed"
              /\ UNCHANGED <<signals, returns, equity, stats>>
         ELSE \E sig \in {GenerateSignals(data, st.short, st.long)} :
              \E strat_ret \in {compute_returns(sig)} :
              \E eq \in {EquityCurve(strat_ret, initial_capital[1])} :
                 /\ signals' = <<sig>>
                 /\ returns' = <<strat_ret>>
                 /\ equity' = <<eq>>
                 /\ stats' = <<RunStats(sig, strat_ret, eq, initial_capital[1])>>
                 /\ pc' = "ran"
                 /\ UNCHANGED error
    /\ UNCHANGED <<args, strategy, data, initial_capital, metrics>>

\* The keys main's reporter reads from the report, in the order it reads them.
MainReportKeys ==
    <<"Cumulative Return", "Annualized Return", "Annualized Volatility",
      "Sharpe Ratio", "Sortino Ratio", "Calmar Ratio", "Max Drawdown",
      "Best Trade", "Worst Trade", "Total Trades", "Win Rate",
      "Average Trade Return", "Profit Factor">>

\* main(): the reporter after stats = bt.run(); a missing key is a KeyError.
MainReport ==
    /\ pc = "ran"
    /\ IF \A i \in 1..Len(MainReportKeys) : MainReportKeys[i] \in DOMAIN stats[1]
       THEN /\ pc' = "reported"
            /\ UNCHANGED error
       ELSE /\ error' = "KeyError"
            /\ pc' = "report_failed"
    /\ UNCHANGED <<args, strategy, data, initial_capital, signals, returns,
                   equity, stats, metrics>>

\* The keys example.py reads from the results.
ExampleReportKeys ==
    <<"Cumulative Return", "Sharpe Ratio", "Max Drawdown", "Total Trades">>

\* example.py main(): the display of the results of backtester.run()
ExampleReport ==
    /\ pc = "ran"
    /\ IF \A i \in 1..Len(ExampleReportKeys) : ExampleReportKeys[i] \in DOMAIN stats[1]
       THEN /\ pc' = "example_done"
            /\ UNCHANGED error
       ELSE /\ error' = "KeyError"
            /\ pc' = "report_failed"
    /\ UNCHANGED <<args, strategy, data, initial_capital, signals, returns,
                   equity, stats, metrics>>

\* calculate_all_metrics(bt.returns, bt.equity, bt.signals)
CalculateAllMetrics ==
    /\ pc = "ran"
    /\ metrics' = <<calculate_all_metrics(returns[1], equity[1], signals[1])>>
    /\ pc' = "metrics"
    /\ UNCHANGED <<error, args, strategy, data, initial_capital, signals,
                   returns, equity, stats>>

Next ==
    \/ NewStrategy
    \/ NewBacktester
    \/ Run
    \/ MainReport
    \/ ExampleReport
    \/ CalculateAllMetrics

Spec == Init /\ [][Next]_vars

\* ------------------------------------------------------------------------
\* Properties
\* ------------------------------------------------------------------------
\* x is a number: neither NaN nor an infinity.
IsFinite(x) == x.d # 0

FLe(x, y) == FLt(x, y) \/ FEq(x, y)

\* Indices of the rows whose position delta is v, in chronological order.
DeltaRows(sig, v) ==
    SelectSeq([i \in 1..Len(sig.positions) |-> i],
              LAMBDA i : FEq(sig.positions[i], F(v)))

\* The last row before row x whose position delta is +1.
LastEntryBefore(sig, x) ==
    CHOOSE e \in 1..(x - 1) :
        /\ FEq(sig.positions[e], F(1))
        /\ \A j \in (e + 1)..(x - 1) : ~FEq(sig.positions[j], F(1))

\* (price[t] - price[t-1]) / price[t-1]
PriceReturn(price, t) == FDiv(FSub(price[t], price[t - 1]), price[t - 1])

\* Every close price of the series is positive (no period is a data error).
AllPositive(close) == \A t \in 1..Len(close) : close[t] > 0

NonDecreasing(eq) == \A t \in 2..Len(eq) : ~FLt(eq[t], eq[t - 1])

PerformanceReportKeys ==
    {"Cumulative Return", "Annualized Return", "Annualized Volatility",
     "Sharpe Ratio", "Sortino Ratio", "Max Drawdown", "Calmar Ratio",
     "Total Trades", "Win Rate", "Average Trade Return", "Profit Factor",
     "Best Trade", "Worst Trade"}

\* C1: on a series of positive prices the strategy return of the first
\* period is the number 0, and the return of every later period t is
\* price-return[t] * signal[t-1].
C1_LaggedReturns ==
    (returns # <<>> /\ AllPositive(data)) =>
        \A r \in {returns[1]}, sig \in {signals[1]} :
            /\ FEq(r[1], F(0))
            /\ \A t \in 2..Len(r) :
                  FEq(r[t], FMul(PriceReturn(sig.price, t), F(sig.signal[t - 1])))

C3_EquityRecurrence ==
    (equity # <<>> /\ initial_capital[1] > 0 /\ AllPositive(data)) =>
        \A eq \in {equity[1]}, r \in {returns[1]} :
            /\ Len(eq) = Len(data)
            /\ FEq(eq[1], F(initial_capital[1]))
            /\ \A t \in 2..Len(eq) :
                  FEq(eq[t], FMul(eq[t - 1], FAdd(F(1), r[t])))

\* C4: the report of a run on positive prices with a positive capital
\* holds every metric of the performance report, so every key main's
\* reporter reads is present.
C4_ReportKeys ==
    (stats # <<>> /\ initial_capital[1] > 0 /\ AllPositive(data)) =>
        /\ PerformanceReportKeys \subseteq DOMAIN stats[1]
        /\ \A i \in 1..Len(MainReportKeys) : MainReportKeys[i] \in DOMAIN stats[1]

\* C5: with positive prices and a positive initial capital the reported
\* Max Drawdown is a number <= 0, and exactly 0 when the equity curve is
\* non-decreasing (a one-period series included).
C5_MaxDrawdown ==
    (stats # <<>> /\ initial_capital[1] > 0 /\ AllPositive(data)) =>
        \A mdd \in {stats[1]["Max Drawdown"]}, eq \in {equity[1]} :
            /\ IsFinite(mdd)
            /\ FLe(mdd, F(0))
            /\ NonDecreasing(eq) => FEq(mdd, F(0))

\* C6: the first position delta is 0, the deltas sum to
\* signal[last] - signal[first], and Total Trades is even when the series
\* ends flat.
C6_PositionDeltas ==
    signals # <<>> =>
        \A sig \in {signals[1]} : \A n \in {Len(sig.signal)} :
            /\ FEq(sig.positions[1], F(0))
            /\ FEq(RangeSum(sig.positions, 1, n), F(sig.signal[n] - sig.signal[1]))
            /\ sig.signal[n] = 0 => stats[1]["Total Trades"] % 2 = 0

\* C6 witness: a series that went long and ends flat, with two deltas.
C6_Witness ==
    /\ signals # <<>>
    /\ signals[1].signal[Len(signals[1].signal)] = 0
    /\ stats[1]["Total Trades"] = 2

\* C7: on a series of positive prices profit_factor is 0 without completed
\* trades, +inf with a profitable and no losing trade, gross profit /
\* |gross loss| with a losing trade, and never +inf when no completed trade
\* is profitable.
C7_ProfitFactor ==
    (metrics # <<>> /\ AllPositive(data)) =>
        \A tr \in {TradeReturns(signals[1])}, pf \in {metrics[1]["Profit Factor"]} :
        \A wins \in {SelectSeq(tr, LAMBDA r : FGt(r, F(0)))},
           losses \in {SelectSeq(tr, LAMBDA r : FLt(r, F(0)))} :
            /\ Len(tr) = 0 => pf = F(0)
            /\ (Len(wins) > 0 /\ Len(losses) = 0) => pf = PosInf
            /\ Len(losses) > 0 => pf = FDiv(PySum(wins), FAbs(PySum(losses)))
            /\ Len(wins) = 0 => pf # PosInf

\* C8: the construction of SMACrossover(short, long) fails exactly when
\* 0 < short < long does not hold.
C8_WindowValidation ==
    args # <<>> =>
        ((strategy = <<>>) <=> ~(0 < args[1] /\ args[1] < args[2]))

\* C9: with an initial capital <= 0 (and positive prices) no report is
\* produced and no signals, returns or equity are retained.
C9_CapitalValidation ==
    (initial_capital # <<>> /\ initial_capital[1] <= 0 /\ AllPositive(data)) =>
        /\ signals = <<>>
        /\ returns = <<>>
        /\ equity = <<>>
        /\ stats = <<>>

\* C10: with a non-positive price at a period other than the last (and a
\* positive capital), the run aborts: no report, and no signals, returns or
\* equity are retained.
C10_PriceValidation ==
    (/\ initial_capital # <<>>
     /\ initial_capital[1] > 0
     /\ \E t \in 1..(Len(data) - 1) : data[t] <= 0) =>
        /\ signals = <<>>
        /\ returns = <<>>
        /\ equity = <<>>
        /\ stats = <<>>

====
